---------------------------- MODULE Spec2Model ----------------------------
(***************************************************************************)
(* Model of homework.py: a bot that polls the homework-review API, diffs   *)
(* each homework's status against status_all_homeworks and notifies a      *)
(* Telegram chat.  Python dicts are functions (DOMAIN = the keys), lists   *)
(* are sequences, strings built by f-strings are tuples of their parts     *)
(* (Cyrillic literals are transliterated), None is the empty tuple.        *)
(***************************************************************************)
EXTENDS Integers, Sequences, FiniteSets, TLC

VARIABLES
    PRACTICUM_TOKEN,       \* module globals read from the environment
    TELEGRAM_TOKEN,
    TELEGRAM_CHAT_ID,
    status_all_homeworks,  \* module global: homework_name -> last seen status
    send_message_error,    \* main's local: error message -> True
    current_timestamp,     \* main's local: the cursor
    params,                \* the query parameters of the last request
    response,              \* main's local: value returned by get_api_answer
    homeworks_list,        \* main's local: value returned by check_response
    numwork,               \* main's local: index of the for loop (0-based)
    error,                 \* the exception caught by "except Exception as error"
    pc,                    \* position of main
    now,                   \* the wall clock, int(time.time())
    sent,                  \* messages handed to send_message by the last step
    logged,                \* log levels emitted by the last step
    polls,                 \* number of requests.get calls so far
    sleeps,                \* number of time.sleep calls since the last poll
    parsed,                \* number of parse_status calls in the current cycle
    raised,                \* the current cycle has raised an exception
    cycle_ok,              \* the preceding cycle finished without exception
    repeat,                \* the payload equals the one of an error-free preceding cycle
    error_sends,           \* error message -> send_message calls since the last reset
    http_result,           \* what requests.get did in the last poll
    notified               \* status-change messages handed to send_message in the current cycle

vars == <<PRACTICUM_TOKEN, TELEGRAM_TOKEN, TELEGRAM_CHAT_ID,
          status_all_homeworks, send_message_error, current_timestamp,
          params, response, homeworks_list, numwork, error, pc, now,
          sent, logged, polls, sleeps, parsed, raised, cycle_ok, repeat,
          error_sends, http_result, notified>>

---------------------------------------------------------------------------
(* Bounds of the model *)

\* longest homeworks list the API returns
MaxLen == 2
\* number of polls after which the model stops
MaxCycles == 2

(* Program constants *)

RETRY_TIME == 600

HTTP_OK == 200

HOMEWORK_STATUSES ==
    [approved  |-> "Rabota proverena: revyueru vsyo ponravilos. Ura!",
     reviewing |-> "Rabota vzyata na proverku revyuerom.",
     rejected  |-> "Rabota proverena: u revyuera est zamechaniya."]

---------------------------------------------------------------------------
(* Python values *)

None == <<>>

EmptyDict == [k \in {} |-> k]

\* d[k] = v on a dict
SetItem(d, k, v) == [x \in DOMAIN d \cup {k} |-> IF x = k THEN v ELSE d[x]]

\* JSON values as the response body may hold them: type(...) and content
JList(items) == [type |-> "list", items |-> items, dict |-> EmptyDict]

JDict(d) == [type |-> "dict", items |-> <<>>, dict |-> d]

JOther(t) == [type |-> t, items |-> <<>>, dict |-> EmptyDict]

NoValue == JOther("unbound")

\* exceptions: the class and the message given to the constructor
Exc(type, text) == [type |-> type, text |-> text]

NoError == Exc("", <<>>)

\* str(error): KeyError shows the repr of its argument, other classes the text
Str(e) == IF e.type = "KeyError" THEN <<"'">> \o e.text \o <<"'">> ELSE e.text

\* the outcome of a call: returned value or raised exception
Return(v) == [raised |-> FALSE, error |-> NoError, value |-> v]

Raise(e) == [raised |-> TRUE, error |-> e, value |-> None]

---------------------------------------------------------------------------
(* Inputs *)

\* os.getenv: None when the variable is not set
Tokens == {None, <<"token">>}

Names == {"hw1", "hw2"}

\* homework records: every name with every documented status, one with an
\* undocumented status, one without the status key
Homeworks ==
    [homework_name : Names, status : DOMAIN HOMEWORK_STATUSES]
        \cup {[homework_name |-> "hw1", status |-> "unknown"],
              [homework_name |-> "hw1"]}

RECURSIVE SeqsUpTo(_, _)
SeqsUpTo(S, n) ==
    IF n = 0 THEN {<<>>}
    ELSE LET shorter == SeqsUpTo(S, n - 1)
         IN shorter \cup {Append(s, x) : s \in {t \in shorter : Len(t) = n - 1}, x \in S}

\* parsed bodies: not a dict, a dict without homeworks, homeworks not a list,
\* homeworks a list of records
Payloads ==
    {JList(<<>>), JDict(EmptyDict), JDict([homeworks |-> JOther("str")])}
        \cup {JDict([homeworks |-> JList(s)]) : s \in SeqsUpTo(Homeworks, MaxLen)}

\* what requests.get does: raises, or returns a response with a status code
\* and a body that json() parses or not
HttpResults ==
    {[raises |-> TRUE, status_code |-> 0, json_ok |-> FALSE, body |-> NoValue],
     [raises |-> FALSE, status_code |-> 503, json_ok |-> FALSE, body |-> NoValue],
     [raises |-> FALSE, status_code |-> HTTP_OK, json_ok |-> FALSE, body |-> NoValue]}
        \cup {[raises |-> FALSE, status_code |-> HTTP_OK, json_ok |-> TRUE, body |-> p] :
                p \in Payloads}

---------------------------------------------------------------------------
(* Functions of homework.py *)

\* mutant: the chat id is not checked
check_tokens_two(practicum, telegram, chat) ==
    /\ practicum # None
    /\ telegram # None

check_tokens(practicum, telegram, chat) ==
    /\ practicum # None
    /\ telegram # None
    /\ chat # None

\* timestamp sent as from_date
from_date(timestamp, clock) == IF timestamp # 0 THEN timestamp ELSE clock

\* mutant: a body that json() cannot parse is passed on
get_api_answer_unparsed(http) ==
    IF http.raises
    THEN Raise(Exc("CheckStatusEndpoint",
                   <<"requests.get vernul oshibku \"", "ConnectionError", "\"">>))
    ELSE IF http.status_code # HTTP_OK
    THEN Raise(Exc("CheckStatusEndpoint",
                   <<"Nedostupnost endpoiga, status koda: ", ToString(http.status_code)>>))
    ELSE Return(http.body)

get_api_answer(http) ==
    IF http.raises
    THEN Raise(Exc("CheckStatusEndpoint",
                   <<"requests.get vernul oshibku \"", "ConnectionError", "\"">>))
    ELSE IF http.status_code # HTTP_OK
    THEN Raise(Exc("CheckStatusEndpoint",
                   <<"Nedostupnost endpoiga, status koda: ", ToString(http.status_code)>>))
    ELSE IF ~http.json_ok
    THEN Raise(Exc("CheckStatusEndpoint", <<"Server vernul telo ne v json formate">>))
    ELSE Return(http.body)

\* mutant: the type of homeworks is not checked
check_response_any(resp) ==
    IF resp.type # "dict"
    THEN Raise(Exc("TypeError", <<"API ne korrekten, response ne yavlyaetsya slovarem">>))
    ELSE IF "homeworks" \notin DOMAIN resp.dict
    THEN Raise(Exc("CheckHomeworksInResponse",
                   <<"API ne korrekten, v response otsutstvuet homeworks">>))
    ELSE Return(resp.dict["homeworks"].items)

check_response(resp) ==
    IF resp.type # "dict"
    THEN Raise(Exc("TypeError", <<"API ne korrekten, response ne yavlyaetsya slovarem">>))
    ELSE IF "homeworks" \notin DOMAIN resp.dict
    THEN Raise(Exc("CheckHomeworksInResponse",
                   <<"API ne korrekten, v response otsutstvuet homeworks">>))
    ELSE IF resp.dict["homeworks"].type # "list"
    THEN Raise(Exc("CheckHomeworksInResponse",
                   <<"API ne korrekten, response vernul ne spisok">>))
    ELSE Return(resp.dict["homeworks"].items)

ChangedMessage(homework_name, verdict) ==
    <<"Izmenilsya status proverki raboty \"", homework_name, "\". ", verdict>>

KeysError ==
    Exc("KeyError", <<"Oshibka proverka statusa domashney raboty, ",
                      "otsutstvuyut iskomye klyuchi">>)

StatusError(homework_status) ==
    Exc("CheckHomeworkStatus", <<"Oshibka proverka statusa domashney raboty, ",
                                 "nedokumentirovannyy status: ", homework_status>>)

\* mutant: a changed status is reported but not stored
parse_status_stale(homework, statuses) ==
    IF "homework_name" \notin DOMAIN homework \/ "status" \notin DOMAIN homework
    THEN [out |-> Raise(KeysError), statuses |-> statuses]
    ELSE IF homework["status"] \notin DOMAIN HOMEWORK_STATUSES
    THEN [out |-> Raise(StatusError(homework["status"])), statuses |-> statuses]
    ELSE IF homework["homework_name"] \notin DOMAIN statuses
    THEN [out |-> Return(ChangedMessage(homework["homework_name"],
                                        HOMEWORK_STATUSES[homework["status"]])),
          statuses |-> SetItem(statuses, homework["homework_name"], homework["status"])]
    ELSE IF homework["status"] # statuses[homework["homework_name"]]
    THEN [out |-> Return(ChangedMessage(homework["homework_name"],
                                        HOMEWORK_STATUSES[homework["status"]])),
          statuses |-> statuses]
    ELSE [out |-> Return(None), statuses |-> statuses]

\* mutant: the stored status is not compared, every valid record is reported
parse_status_always(homework, statuses) ==
    IF "homework_name" \notin DOMAIN homework \/ "status" \notin DOMAIN homework
    THEN [out |-> Raise(KeysError), statuses |-> statuses]
    ELSE IF homework["status"] \notin DOMAIN HOMEWORK_STATUSES
    THEN [out |-> Raise(StatusError(homework["status"])), statuses |-> statuses]
    ELSE [out |-> Return(ChangedMessage(homework["homework_name"],
                                        HOMEWORK_STATUSES[homework["status"]])),
          statuses |-> SetItem(statuses, homework["homework_name"], homework["status"])]

\* mutant: the status is stored before it is validated
parse_status_early(homework, statuses) ==
    IF "homework_name" \notin DOMAIN homework \/ "status" \notin DOMAIN homework
    THEN [out |-> Raise(KeysError), statuses |-> statuses]
    ELSE IF homework["status"] \notin DOMAIN HOMEWORK_STATUSES
    THEN [out |-> Raise(StatusError(homework["status"])),
          statuses |-> SetItem(statuses, homework["homework_name"], homework["status"])]
    ELSE IF homework["homework_name"] \notin DOMAIN statuses
            \/ homework["status"] # statuses[homework["homework_name"]]
    THEN [out |-> Return(ChangedMessage(homework["homework_name"],
                                        HOMEWORK_STATUSES[homework["status"]])),
          statuses |-> SetItem(statuses, homework["homework_name"], homework["status"])]
    ELSE [out |-> Return(None), statuses |-> statuses]

\* mutant: a name seen for the first time is reported but not stored
parse_status_forget(homework, statuses) ==
    IF "homework_name" \notin DOMAIN homework \/ "status" \notin DOMAIN homework
    THEN [out |-> Raise(KeysError), statuses |-> statuses]
    ELSE IF homework["status"] \notin DOMAIN HOMEWORK_STATUSES
    THEN [out |-> Raise(StatusError(homework["status"])), statuses |-> statuses]
    ELSE IF homework["homework_name"] \notin DOMAIN statuses
    THEN [out |-> Return(ChangedMessage(homework["homework_name"],
                                        HOMEWORK_STATUSES[homework["status"]])),
          statuses |-> statuses]
    ELSE IF homework["status"] # statuses[homework["homework_name"]]
    THEN [out |-> Return(ChangedMessage(homework["homework_name"],
                                        HOMEWORK_STATUSES[homework["status"]])),
          statuses |-> SetItem(statuses, homework["homework_name"], homework["status"])]
    ELSE [out |-> Return(None), statuses |-> statuses]

\* the outcome of parse_status and the value of status_all_homeworks after it
parse_status(homework, statuses) ==
    IF "homework_name" \notin DOMAIN homework \/ "status" \notin DOMAIN homework
    THEN [out |-> Raise(KeysError), statuses |-> statuses]
    ELSE LET homework_name == homework["homework_name"]
             homework_status == homework["status"]
         IN IF homework_status \notin DOMAIN HOMEWORK_STATUSES
            THEN [out |-> Raise(StatusError(homework_status)), statuses |-> statuses]
            ELSE IF homework_name \notin DOMAIN statuses
            THEN [out |-> Return(ChangedMessage(homework_name,
                                                HOMEWORK_STATUSES[homework_status])),
                  statuses |-> SetItem(statuses, homework_name, homework_status)]
            ELSE IF homework_status # statuses[homework_name]
            THEN [out |-> Return(ChangedMessage(homework_name,
                                                HOMEWORK_STATUSES[homework_status])),
                  statuses |-> SetItem(statuses, homework_name, homework_status)]
            ELSE [out |-> Return(None), statuses |-> statuses]

\* what bot.send_message raises when the delivery fails
TelegramError == Exc("TelegramError", <<"delivery failed">>)

\* mutant: the delivery failure is logged and raised again
send_message_reraise(delivered) ==
    IF delivered
    THEN [raised |-> FALSE, error |-> NoError, logged |-> <<"INFO">>]
    ELSE [raised |-> TRUE, error |-> TelegramError, logged |-> <<"ERROR">>]

\* send_message: info on delivery, error on failure; the exception of
\* bot.send_message is caught, so the call returns in both cases
send_message(delivered) ==
    IF delivered
    THEN [raised |-> FALSE, error |-> NoError, logged |-> <<"INFO">>]
    ELSE [raised |-> FALSE, error |-> NoError, logged |-> <<"ERROR">>]

\* mutant: the error is sent whether or not it was sent before
chek_send_message_error_resend(message, seen) ==
    [sends |-> <<message>>, seen |-> SetItem(seen, message, TRUE)]

\* mutant: a new message is sent and stored without the mark
chek_send_message_error_unmarked(message, seen) ==
    IF message \in DOMAIN seen
    THEN IF seen[message] # TRUE
         THEN [sends |-> <<message>>, seen |-> SetItem(seen, message, TRUE)]
         ELSE [sends |-> <<>>, seen |-> seen]
    ELSE [sends |-> <<message>>, seen |-> SetItem(seen, message, FALSE)]

\* the messages chek_send_message_error hands to send_message and the
\* dict it leaves behind
chek_send_message_error(message, seen) ==
    IF message \in DOMAIN seen
    THEN IF seen[message] # TRUE
         THEN [sends |-> <<message>>, seen |-> SetItem(seen, message, TRUE)]
         ELSE [sends |-> <<>>, seen |-> seen]
    ELSE [sends |-> <<message>>, seen |-> SetItem(seen, message, TRUE)]

\* mutant: the loop steps by two
range_next_two(index) == index + 2

\* range(0, len(homeworks_list)): the index after index
range_next(index) == index + 1

\* f'Sboy v rabote programmy: {error}'
ErrorMessage(e) == <<"Sboy v rabote programmy: ">> \o Str(e)

---------------------------------------------------------------------------
(* main *)

Init ==
    /\ PRACTICUM_TOKEN \in Tokens
    /\ TELEGRAM_TOKEN \in Tokens
    /\ TELEGRAM_CHAT_ID \in Tokens
    /\ status_all_homeworks = EmptyDict
    /\ send_message_error = EmptyDict
    /\ current_timestamp = 0
    /\ params = [from_date |-> 0]
    /\ response = NoValue
    /\ homeworks_list = <<>>
    /\ numwork = 0
    /\ error = NoError
    /\ pc = "main"
    /\ now = 0
    /\ sent = <<>>
    /\ logged = <<>>
    /\ polls = 0
    /\ sleeps = 0
    /\ parsed = 0
    /\ raised = FALSE
    /\ cycle_ok = FALSE
    /\ repeat = FALSE
    /\ error_sends = EmptyDict
    /\ http_result = [raises |-> FALSE, status_code |-> 0, json_ok |-> FALSE,
                      body |-> NoValue]
    /\ notified = 0

\* lines 144-150: the credentials check and the set-up of the loop
Main ==
    /\ pc = "main"
    /\ IF ~check_tokens(PRACTICUM_TOKEN, TELEGRAM_TOKEN, TELEGRAM_CHAT_ID)
       THEN /\ logged' = <<"CRITICAL">>
            /\ pc' = "exit"
            /\ UNCHANGED <<current_timestamp, send_message_error>>
       ELSE /\ logged' = <<>>
            /\ current_timestamp' = now
            /\ send_message_error' = EmptyDict
            /\ pc' = "try"
    /\ sent' = <<>>
    /\ UNCHANGED <<PRACTICUM_TOKEN, TELEGRAM_TOKEN, TELEGRAM_CHAT_ID,
                   status_all_homeworks, params, response, homeworks_list, numwork,
                   error, now, polls, sleeps, parsed, raised, cycle_ok, repeat,
                   error_sends, http_result, notified>>

\* lines 153-155: response = get_api_answer(current_timestamp),
\* homeworks_list = check_response(response), and the entry of the for loop
Poll ==
    /\ pc = "try"
    /\ polls < MaxCycles
    /\ \E http \in HttpResults :
          LET answer == get_api_answer(http)
              checked == check_response(answer.value)
          IN /\ http_result' = http
             /\ IF answer.raised
                THEN /\ error' = answer.error
                     /\ raised' = TRUE
                     /\ pc' = "except"
                     /\ UNCHANGED <<response, homeworks_list, numwork, repeat>>
                ELSE /\ response' = answer.value
                     /\ IF checked.raised
                        THEN /\ error' = checked.error
                             /\ raised' = TRUE
                             /\ pc' = "except"
                             /\ UNCHANGED <<homeworks_list, numwork, repeat>>
                        ELSE /\ homeworks_list' = checked.value
                             /\ repeat' = (cycle_ok /\ checked.value = homeworks_list)
                             /\ numwork' = 0
                             /\ raised' = FALSE
                             /\ pc' = IF Len(checked.value) > 0 THEN "for" ELSE "finally"
                             /\ UNCHANGED error
    /\ params' = [from_date |-> from_date(current_timestamp, now)]
    /\ polls' = polls + 1
    /\ sleeps' = 0
    /\ parsed' = 0
    /\ notified' = 0
    /\ sent' = <<>>
    /\ logged' = <<>>
    /\ UNCHANGED <<PRACTICUM_TOKEN, TELEGRAM_TOKEN, TELEGRAM_CHAT_ID,
                   status_all_homeworks, send_message_error, current_timestamp,
                   now, cycle_ok, error_sends>>

\* lines 155-159: one iteration of the for loop
ForBody ==
    /\ pc = "for"
    /\ LET r == parse_status(homeworks_list[numwork + 1], status_all_homeworks)
       IN /\ status_all_homeworks' = r.statuses
          /\ parsed' = parsed + 1
          /\ IF r.out.raised
             THEN /\ error' = r.out.error
                  /\ raised' = TRUE
                  /\ pc' = "except"
                  /\ sent' = <<>>
                  /\ logged' = <<>>
                  /\ UNCHANGED <<send_message_error, numwork, error_sends,
                                 notified>>
             ELSE IF r.out.value # None
             THEN \E delivered \in BOOLEAN :
                     LET s == send_message(delivered)
                     IN /\ logged' = s.logged
                        /\ sent' = <<r.out.value>>
                        /\ notified' = notified + 1
                        /\ IF s.raised
                           THEN /\ error' = s.error
                                /\ raised' = TRUE
                                /\ pc' = "except"
                                /\ UNCHANGED <<send_message_error, numwork,
                                               error_sends>>
                           ELSE /\ send_message_error' = EmptyDict
                                /\ error_sends' = EmptyDict
                                /\ numwork' = range_next(numwork)
                                /\ pc' = IF range_next(numwork) < Len(homeworks_list)
                                         THEN "for" ELSE "finally"
                                /\ UNCHANGED <<error, raised>>
             ELSE /\ logged' = <<"DEBUG">>
                  /\ sent' = <<>>
                  /\ numwork' = range_next(numwork)
                  /\ pc' = IF range_next(numwork) < Len(homeworks_list)
                           THEN "for" ELSE "finally"
                  /\ UNCHANGED <<send_message_error, error_sends, error, raised,
                                 notified>>
    /\ UNCHANGED <<PRACTICUM_TOKEN, TELEGRAM_TOKEN, TELEGRAM_CHAT_ID,
                   current_timestamp, params, response, homeworks_list, now, polls,
                   sleeps, cycle_ok, repeat, http_result>>

\* mutant: the handler goes back to the records that are left
Except_resume ==
    /\ pc = "except"
    /\ LET message == ErrorMessage(error)
           r == chek_send_message_error(message, send_message_error)
       IN /\ send_message_error' = r.seen
          /\ sent' = r.sends
          /\ error_sends' =
                IF r.sends # <<>>
                THEN SetItem(error_sends, message,
                             IF message \in DOMAIN error_sends
                             THEN error_sends[message] + 1 ELSE 1)
                ELSE error_sends
          /\ logged' = <<"ERROR">>
    /\ error' = NoError
    /\ numwork' = IF parsed > 0 THEN range_next(numwork) ELSE numwork
    /\ pc' = IF parsed > 0 /\ range_next(numwork) < Len(homeworks_list)
             THEN "for" ELSE "finally"
    /\ UNCHANGED <<PRACTICUM_TOKEN, TELEGRAM_TOKEN, TELEGRAM_CHAT_ID,
                   status_all_homeworks, current_timestamp, params, response,
                   homeworks_list, now, polls, sleeps, parsed, raised,
                   cycle_ok, repeat, http_result, notified>>

\* mutant: the message is recorded only when it was delivered
Except_retry ==
    /\ pc = "except"
    /\ LET message == ErrorMessage(error)
           r == chek_send_message_error(message, send_message_error)
       IN IF r.sends # <<>>
          THEN \E delivered \in BOOLEAN :
                  /\ logged' = <<"ERROR">> \o send_message(delivered).logged
                  /\ sent' = r.sends
                  /\ error_sends' =
                        SetItem(error_sends, message,
                                IF message \in DOMAIN error_sends
                                THEN error_sends[message] + 1 ELSE 1)
                  /\ send_message_error' =
                        IF delivered THEN r.seen ELSE send_message_error
          ELSE /\ logged' = <<"ERROR">>
               /\ sent' = <<>>
               /\ send_message_error' = r.seen
               /\ UNCHANGED error_sends
    /\ error' = NoError
    /\ pc' = "finally"
    /\ UNCHANGED <<PRACTICUM_TOKEN, TELEGRAM_TOKEN, TELEGRAM_CHAT_ID,
                   status_all_homeworks, current_timestamp, params, response,
                   homeworks_list, numwork, now, polls, sleeps, parsed, raised,
                   cycle_ok, repeat, http_result, notified>>

\* lines 160-163: the exception handler; an exception that leaves it is
\* pending while the finally clause runs
Except ==
    /\ pc = "except"
    /\ LET message == ErrorMessage(error)
           r == chek_send_message_error(message, send_message_error)
       IN IF r.sends # <<>>
          THEN \E delivered \in BOOLEAN :
                  LET s == send_message(delivered)
                  IN /\ logged' = <<"ERROR">> \o s.logged
                     /\ sent' = r.sends
                     /\ error_sends' =
                           SetItem(error_sends, message,
                                   IF message \in DOMAIN error_sends
                                   THEN error_sends[message] + 1 ELSE 1)
                     /\ IF s.raised
                        THEN /\ error' = s.error
                             /\ UNCHANGED send_message_error
                        ELSE /\ error' = NoError
                             /\ send_message_error' = r.seen
          ELSE /\ logged' = <<"ERROR">>
               /\ sent' = <<>>
               /\ error' = NoError
               /\ send_message_error' = r.seen
               /\ UNCHANGED error_sends
    /\ pc' = "finally"
    /\ UNCHANGED <<PRACTICUM_TOKEN, TELEGRAM_TOKEN, TELEGRAM_CHAT_ID,
                   status_all_homeworks, current_timestamp, params, response,
                   homeworks_list, numwork, now, polls, sleeps, parsed, raised,
                   cycle_ok, repeat, http_result, notified>>

\* mutant: the cursor is left where it was
Finally_cursor_kept ==
    /\ pc = "finally"
    /\ now' = now + RETRY_TIME
    /\ sleeps' = sleeps + 1
    /\ cycle_ok' = ~raised
    /\ repeat' = FALSE
    /\ sent' = <<>>
    /\ logged' = <<>>
    /\ pc' = IF error # NoError THEN "crashed" ELSE "try"
    /\ UNCHANGED <<PRACTICUM_TOKEN, TELEGRAM_TOKEN, TELEGRAM_CHAT_ID,
                   status_all_homeworks, send_message_error, current_timestamp,
                   params, response, homeworks_list, numwork, error, polls,
                   parsed, raised, error_sends, http_result, notified>>

\* mutant: a cycle without exception clears send_message_error
Finally_clears ==
    /\ pc = "finally"
    /\ now' = now + RETRY_TIME
    /\ current_timestamp' = now'
    /\ sleeps' = sleeps + 1
    /\ cycle_ok' = ~raised
    /\ repeat' = FALSE
    /\ sent' = <<>>
    /\ logged' = <<>>
    /\ send_message_error' = IF raised THEN send_message_error ELSE EmptyDict
    /\ error_sends' = IF raised THEN error_sends ELSE EmptyDict
    /\ pc' = IF error # NoError THEN "crashed" ELSE "try"
    /\ UNCHANGED <<PRACTICUM_TOKEN, TELEGRAM_TOKEN, TELEGRAM_CHAT_ID,
                   status_all_homeworks, params, response, homeworks_list,
                   numwork, error, polls, parsed, raised, http_result,
                   notified>>

\* mutant: main returns after a cycle that raised
Finally_stops ==
    /\ pc = "finally"
    /\ now' = now + RETRY_TIME
    /\ current_timestamp' = now'
    /\ sleeps' = sleeps + 1
    /\ cycle_ok' = ~raised
    /\ repeat' = FALSE
    /\ sent' = <<>>
    /\ logged' = <<>>
    /\ pc' = IF raised THEN "crashed" ELSE "try"
    /\ UNCHANGED <<PRACTICUM_TOKEN, TELEGRAM_TOKEN, TELEGRAM_CHAT_ID,
                   status_all_homeworks, send_message_error, params, response,
                   homeworks_list, numwork, error, polls, parsed, raised,
                   error_sends, http_result, notified>>

\* lines 164-166: the finally clause; a pending exception then leaves main
Finally ==
    /\ pc = "finally"
    /\ now' = now + RETRY_TIME
    /\ current_timestamp' = now'
    /\ sleeps' = sleeps + 1
    /\ cycle_ok' = ~raised
    /\ repeat' = FALSE
    /\ sent' = <<>>
    /\ logged' = <<>>
    /\ pc' = IF error # NoError THEN "crashed" ELSE "try"
    /\ UNCHANGED <<PRACTICUM_TOKEN, TELEGRAM_TOKEN, TELEGRAM_CHAT_ID,
                   status_all_homeworks, send_message_error, params, response,
                   homeworks_list, numwork, error, polls, parsed, raised,
                   error_sends, http_result, notified>>

Next == Main \/ Poll \/ ForBody \/ Except \/ Finally

Spec == Init /\ [][Next]_vars

\* main is one thread that runs whenever it can take a step: every blocking
\* call (requests.get, bot.send_message, time.sleep) returns
FairSpec == Spec /\ WF_vars(Next)

---------------------------------------------------------------------------
(* Properties *)

\* the record the next iteration of the for loop hands to parse_status
Current == homeworks_list[numwork + 1]

WellFormed(homework) ==
    /\ DOMAIN homework = {"homework_name", "status"}
    /\ homework["status"] \in DOMAIN HOMEWORK_STATUSES

\* no name occurs in the list with two different statuses
OneStatusPerName(list) ==
    \A i, j \in 1..Len(list) :
        list[i]["homework_name"] = list[j]["homework_name"]
            => list[i]["status"] = list[j]["status"]

\* C1: a well-formed record whose name is not in status_all_homeworks, or
\* is there with another status, makes parse_status store the record's
\* status under the name (the other entries stay) and return the "status
\* changed" message of the name and the verdict of the new status, which
\* main hands to send_message.
C1_ChangeStoredAndReported ==
    [][(/\ pc = "for"
        /\ WellFormed(Current)
        /\ \/ Current["homework_name"] \notin DOMAIN status_all_homeworks
           \/ status_all_homeworks[Current["homework_name"]] # Current["status"])
       => /\ pc' # "except"
          /\ DOMAIN status_all_homeworks'
                = DOMAIN status_all_homeworks \cup {Current["homework_name"]}
          /\ status_all_homeworks'[Current["homework_name"]] = Current["status"]
          /\ \A n \in DOMAIN status_all_homeworks \ {Current["homework_name"]} :
                status_all_homeworks'[n] = status_all_homeworks[n]
          /\ sent' = << <<"Izmenilsya status proverki raboty \"",
                          Current["homework_name"], "\". ",
                          HOMEWORK_STATUSES[Current["status"]]>> >>]_vars

\* hw1 went from reviewing to approved inside one list: the second record
\* found the name stored with another status
C1_Witness ==
    /\ pc = "finally"
    /\ parsed = 2
    /\ homeworks_list = <<[homework_name |-> "hw1", status |-> "reviewing"],
                          [homework_name |-> "hw1", status |-> "approved"]>>
    /\ status_all_homeworks["hw1"] = "approved"
    /\ sent = <<ChangedMessage("hw1", HOMEWORK_STATUSES["approved"])>>

\* C2: a record whose status is the one stored for its name produces no
\* message and no error and leaves status_all_homeworks as it is; the
\* second of two equal records in a row never produces a message.
C2_SameStatusSilent ==
    [][/\ (/\ pc = "for"
           /\ WellFormed(Current)
           /\ Current["homework_name"] \in DOMAIN status_all_homeworks
           /\ status_all_homeworks[Current["homework_name"]] = Current["status"])
          => /\ pc' # "except"
             /\ ~raised'
             /\ sent' = <<>>
             /\ status_all_homeworks' = status_all_homeworks
       /\ (/\ pc = "for"
           /\ numwork >= 1
           /\ homeworks_list[numwork] = Current)
          => /\ sent' = <<>>
             /\ status_all_homeworks' = status_all_homeworks]_vars

\* the same record twice in one list: the second call was silent
C2_Witness ==
    /\ pc = "finally"
    /\ parsed = 2
    /\ homeworks_list = <<[homework_name |-> "hw2", status |-> "rejected"],
                          [homework_name |-> "hw2", status |-> "rejected"]>>
    /\ sent = <<>>
    /\ logged = <<"DEBUG">>
    /\ status_all_homeworks["hw2"] = "rejected"

\* C3: a record with both keys and a status that is not a key of
\* HOMEWORK_STATUSES makes parse_status raise CheckHomeworkStatus and
\* leaves status_all_homeworks as it is.
C3_UnknownStatusRaises ==
    [][(/\ pc = "for"
        /\ DOMAIN Current = {"homework_name", "status"}
        /\ Current["status"] \notin DOMAIN HOMEWORK_STATUSES)
       => /\ pc' = "except"
          /\ error'.type = "CheckHomeworkStatus"
          /\ sent' = <<>>
          /\ status_all_homeworks' = status_all_homeworks]_vars

\* the unknown status came for a name that was already stored
C3_Witness ==
    /\ pc = "except"
    /\ error.type = "CheckHomeworkStatus"
    /\ parsed = 2
    /\ homeworks_list[2]["homework_name"] \in DOMAIN status_all_homeworks
    /\ status_all_homeworks[homeworks_list[2]["homework_name"]] \in DOMAIN HOMEWORK_STATUSES

\* C4 as stated: a cycle whose payload equals the payload of the preceding,
\* error-free cycle sends nothing, whatever the payload.
C4_RepeatedPayloadSilent ==
    repeat => sent = <<>>

\* C4 as amended: a cycle whose payload equals the payload of the
\* preceding, error-free cycle sends nothing, provided no name occurs in
\* the payload with two different statuses.
C4_RepeatedConsistentPayloadSilent ==
    (repeat /\ OneStatusPerName(homeworks_list)) => sent = <<>>

\* a list with a name twice (same status) and another name was repeated and
\* went through silently
C4_Witness ==
    /\ repeat
    /\ pc = "finally"
    /\ parsed = 2
    /\ Len(homeworks_list) = 2
    /\ homeworks_list[1]["homework_name"] # homeworks_list[2]["homework_name"]
    /\ sent = <<>>

C6_ErrorSentOncePerReset ==
    [][/\ \A m \in DOMAIN error_sends' : error_sends'[m] = 1
       /\ DOMAIN error_sends' = DOMAIN send_message_error'
       /\ pc = "except"
          => /\ ErrorMessage(error) \in DOMAIN send_message_error'
             /\ send_message_error'[ErrorMessage(error)] = TRUE
             /\ sent' = IF ErrorMessage(error) \in DOMAIN send_message_error
                        THEN <<>>
                        ELSE <<ErrorMessage(error)>>]_vars

\* two failing cycles in a row with one error text: the second sent nothing
C6_Witness ==
    /\ pc = "finally"
    /\ polls = 2
    /\ raised
    /\ ~cycle_ok
    /\ sent = <<>>
    /\ Cardinality(DOMAIN send_message_error) = 1
    /\ \A m \in DOMAIN error_sends : error_sends[m] = 1

\* C7 as stated: after a cycle without exception send_message_error is
\* empty when the next cycle starts.
C7_ClearedAfterCleanCycle ==
    (pc = "try" /\ cycle_ok) => send_message_error = EmptyDict

\* C8 as stated: when validation succeeds every record of the list is
\* handed to parse_status in that cycle.
C8_EveryRecordParsed ==
    (pc = "finally" /\ parsed > 0) => parsed = Len(homeworks_list)

\* C9: every iteration ends with one sleep of RETRY_TIME and the cursor
\* set to the clock before the next poll; no sleep happens inside a cycle;
\* the cursor never decreases.
C9_SleepAndCursorEveryCycle ==
    [][/\ pc = "finally"
          => /\ pc' = "try"
             /\ sleeps' = 1
             /\ now' = now + RETRY_TIME
       /\ (pc' = "try" /\ polls' > 0)
          => /\ sleeps' = 1
             /\ current_timestamp' = now'
       /\ pc' \in {"for", "except", "finally"} => sleeps' = 0
       /\ (pc = "try" /\ polls > 0) => sleeps = 1
       /\ pc \in {"for", "except"} => pc' \in {"for", "except", "finally"}
       /\ current_timestamp' >= current_timestamp]_vars

\* the second cycle failed and still slept and moved the cursor
C9_Witness ==
    /\ pc = "try"
    /\ polls = 2
    /\ ~cycle_ok
    /\ sleeps = 1
    /\ current_timestamp = 2 * RETRY_TIME
    /\ current_timestamp = now

\* C10: with a credential missing main logs a critical message and exits
\* without a poll, a message or a sleep; with all three present it enters
\* the loop.
C10_MissingTokenExits ==
    /\ pc = "exit"
          => /\ polls = 0
             /\ sleeps = 0
             /\ now = 0
             /\ sent = <<>>
             /\ error_sends = EmptyDict
             /\ logged = <<"CRITICAL">>
    /\ pc # "main"
          => (pc = "exit" <=> \/ PRACTICUM_TOKEN = None
                              \/ TELEGRAM_TOKEN = None
                              \/ TELEGRAM_CHAT_ID = None)

\* only the chat id was missing and main has exited
C10_Witness ==
    /\ pc = "exit"
    /\ PRACTICUM_TOKEN # None
    /\ TELEGRAM_TOKEN # None
    /\ TELEGRAM_CHAT_ID = None



\* the status of a record differs from the one stored for its name
Changed(homework, statuses) ==
    \/ homework["homework_name"] \notin DOMAIN statuses
    \/ statuses[homework["homework_name"]] # homework["status"]

InLoop == pc \in {"try", "for", "except", "finally"}

\* C11: send_message returns normally whatever the messaging call does:
\* after a send for a status change the for loop goes on (or ends) with no
\* exception, after a send from the handler the handler ends with no
\* exception pending, and main never ends with an exception.
C11_DeliveryFailureSwallowed ==
    [][/\ pc' # "crashed"
       /\ (pc = "for" /\ sent' # <<>>)
          => /\ pc' \in {"for", "finally"}
             /\ numwork' = numwork + 1
             /\ error' = NoError
             /\ ~raised'
       /\ (pc = "except" /\ sent' # <<>>)
          => /\ pc' = "finally"
             /\ error' = NoError]_vars

\* the delivery of the first record's message failed and the loop is at
\* the second record
C11_Witness ==
    /\ pc = "for"
    /\ numwork = 1
    /\ sent # <<>>
    /\ logged = <<"ERROR">>
    /\ ~raised
    /\ error = NoError

\* C12: once in the loop main never ends, and from every position of the
\* loop the next poll is issued (up to the MaxCycles polls of the model).
C12_LoopNeverStops ==
    /\ [](pc # "crashed")
    /\ []((pc # "main" /\ check_tokens(PRACTICUM_TOKEN, TELEGRAM_TOKEN, TELEGRAM_CHAT_ID))
            => InLoop)
    /\ \A k \in 0..(MaxCycles - 1) : (InLoop /\ polls = k) ~> (polls = k + 1)

\* a second poll was issued after a cycle that raised
C12_Witness ==
    /\ pc = "for"
    /\ polls = 2
    /\ ~cycle_ok
    /\ parsed = 0

\* C13: get_api_answer raises CheckStatusEndpoint exactly when requests.get
\* raises, the status code is not 200 or json() fails; otherwise it returns
\* the parsed body as it is, and no other exception class leaves it.
C13_EndpointErrorsOnly ==
    [][(pc = "try" /\ pc' # "try")
       => IF \/ http_result'.raises
             \/ http_result'.status_code # 200
             \/ ~http_result'.json_ok
          THEN /\ pc' = "except"
               /\ error'.type = "CheckStatusEndpoint"
               /\ response' = response
          ELSE /\ response' = http_result'.body
               /\ error'.type \in {"", "TypeError", "CheckHomeworksInResponse"}]_vars

\* the server answered 200 with a body that is not JSON
C13_Witness ==
    /\ pc = "except"
    /\ ~http_result.raises
    /\ http_result.status_code = 200
    /\ ~http_result.json_ok
    /\ error.type = "CheckStatusEndpoint"

\* C14 as stated: no entry of status_all_homeworks is removed, every value
\* is a documented status, and at the end of a cycle the entry of a name is
\* the status of the last well-formed record with that name in the
\* validated list.
C14_LatestReceivedStored ==
    [][/\ DOMAIN status_all_homeworks \subseteq DOMAIN status_all_homeworks'
       /\ \A n \in DOMAIN status_all_homeworks' :
             status_all_homeworks'[n] \in DOMAIN HOMEWORK_STATUSES
       /\ (pc' = "finally" /\ parsed' > 0)
          => \A i \in 1..Len(homeworks_list') :
                (/\ WellFormed(homeworks_list'[i])
                 /\ \A j \in (i + 1)..Len(homeworks_list') :
                       ~(/\ WellFormed(homeworks_list'[j])
                         /\ homeworks_list'[j]["homework_name"]
                               = homeworks_list'[i]["homework_name"]))
                => /\ homeworks_list'[i]["homework_name"]
                         \in DOMAIN status_all_homeworks'
                   /\ status_all_homeworks'[homeworks_list'[i]["homework_name"]]
                         = homeworks_list'[i]["status"]]_vars

\* C15: in the for loop the k-th call of parse_status gets the k-th record,
\* the message of a record is sent in the step of that record, before the
\* next record is parsed, and only if its status changed; a cycle that
\* ends without exception has parsed every record.
C15_RecordsInOrder ==
    [][/\ pc = "for"
          => /\ numwork = parsed
             /\ parsed' = parsed + 1
             /\ homeworks_list' = homeworks_list
       /\ (pc = "for" /\ pc' # "except")
          => /\ numwork' = numwork + 1
             /\ sent' = IF Changed(Current, status_all_homeworks)
                        THEN <<ChangedMessage(Current["homework_name"],
                                              HOMEWORK_STATUSES[Current["status"]])>>
                        ELSE <<>>
             /\ notified' = notified + Len(sent')
       /\ (pc = "for" /\ pc' = "finally")
          => /\ parsed' = Len(homeworks_list)
             /\ ~raised'
       /\ (pc = "try" /\ pc' = "finally") => homeworks_list' = <<>>
       /\ (pc = "try" /\ pc' = "for") => numwork' = 0 /\ parsed' = 0 /\ notified' = 0]_vars

\* two records of different names were both new: two messages, the second
\* one sent last
C15_Witness ==
    /\ pc = "finally"
    /\ ~raised
    /\ parsed = 2
    /\ notified = 2
    /\ homeworks_list[1]["homework_name"] # homeworks_list[2]["homework_name"]
    /\ sent = <<ChangedMessage(homeworks_list[2]["homework_name"],
                               HOMEWORK_STATUSES[homeworks_list[2]["status"]])>>

\* C16: a status-change message is handed to send_message only in the step
\* that stores the changed status, the status stays stored and the loop
\* moves on whether or not the delivery failed, and a record that finds its
\* status stored is not sent; the handler records an error message as sent
\* whether or not the delivery failed, and a recorded message is not sent.
C16_NoRetry ==
    [][/\ (pc = "for" /\ sent' # <<>>)
          => /\ Changed(Current, status_all_homeworks)
             /\ status_all_homeworks'[Current["homework_name"]] = Current["status"]
             /\ Len(sent') = 1
             /\ numwork' = numwork + 1
       /\ (pc = "for" /\ WellFormed(Current)
             /\ ~Changed(Current, status_all_homeworks))
          => sent' = <<>>
       /\ (pc = "except" /\ sent' # <<>>)
          => /\ Len(sent') = 1
             /\ sent'[1] \in DOMAIN send_message_error'
             /\ send_message_error'[sent'[1]] = TRUE
       /\ (pc = "except" /\ ErrorMessage(error) \in DOMAIN send_message_error)
          => sent' = <<>>]_vars

\* the delivery of an error message failed and the message is recorded
C16_Witness ==
    /\ pc = "finally"
    /\ raised
    /\ logged = <<"ERROR", "ERROR">>
    /\ Len(sent) = 1
    /\ sent[1] \in DOMAIN send_message_error
    /\ send_message_error[sent[1]] = TRUE

\* C17: the handler runs at most once in a cycle and sends at most one
\* message; after an exception no record is parsed and no status-change
\* message is sent in that cycle: the handler is followed by the finally
\* clause and the next poll.
C17_ErrorEndsCycle ==
    [][/\ pc = "except"
          => /\ pc' = "finally"
             /\ Len(sent') <= 1
             /\ parsed' = parsed
             /\ notified' = notified
             /\ status_all_homeworks' = status_all_homeworks
       /\ (pc = "finally" /\ raised)
          => /\ pc' = "try"
             /\ sent' = <<>>
             /\ parsed' = parsed
             /\ notified' = notified
             /\ status_all_homeworks' = status_all_homeworks
       /\ raised' => pc' \in {"except", "finally", "try"}]_vars

\* the first of two records raised: one error message, the second record
\* not parsed
C17_Witness ==
    /\ pc = "finally"
    /\ raised
    /\ Len(homeworks_list) = 2
    /\ parsed = 1
    /\ notified = 0
    /\ Len(sent) = 1

\* C18: send_message_error becomes empty in the for-loop step that sends a
\* status-change message and in no other step: every other step of the
\* loop keeps its entries (the handler may add one), and an exception
\* raised after a status-change message of the same cycle is always sent.
C18_ResetOnlyAfterStatusMessage ==
    [][/\ (pc = "for" /\ sent' # <<>>) => send_message_error' = EmptyDict
       /\ (pc = "for" /\ sent' = <<>>) => send_message_error' = send_message_error
       /\ pc \in {"try", "finally"} => send_message_error' = send_message_error
       /\ pc = "except"
          => \A m \in DOMAIN send_message_error :
                /\ m \in DOMAIN send_message_error'
                /\ send_message_error'[m] = send_message_error[m]
       /\ (pc = "except" /\ notified > 0) => sent' = <<ErrorMessage(error)>>]_vars

\* the preceding cycle raised, this one sent a status change and then
\* raised: its error was sent and is the only entry
C18_Witness ==
    /\ pc = "finally"
    /\ polls = 2
    /\ ~cycle_ok
    /\ raised
    /\ notified = 1
    /\ Len(sent) = 1
    /\ DOMAIN send_message_error = {sent[1]}

\* C19: every value stored in send_message_error is True, so the handler
\* never finds its message stored without the mark.
C19_OnlyTrueStored ==
    /\ \A m \in DOMAIN send_message_error : send_message_error[m] = TRUE
    /\ pc = "except"
          => ~(/\ ErrorMessage(error) \in DOMAIN send_message_error
               /\ send_message_error[ErrorMessage(error)] # TRUE)

\* two cycles raised different errors: two entries, both True
C19_Witness ==
    /\ pc = "finally"
    /\ Cardinality(DOMAIN send_message_error) = 2
    /\ \A m \in DOMAIN send_message_error : send_message_error[m] = TRUE

=============================================================================
